---- MODULE Spec2Model ----
(***************************************************************************)
(* Neutron DEX tick <-> price conversion: the two modules                  *)
(* tick_price_calculator.py (NeutronDexCalculator) and                     *)
(* tick_price_converter.py (NeutronDexConverter), their four core          *)
(* operations and the interactive main loop of each.                       *)
(*                                                                         *)
(* A decimal.Decimal is modelled as Python's as_tuple(): a sign, the       *)
(* coefficient's decimal digits (most significant first) and an exponent.  *)
(* TLC's integers are 32 bits wide, so the coefficient arithmetic is done  *)
(* on sequences: digits for rounding and comparison, limbs of four digits  *)
(* (least significant first) for products, quotients and differences.      *)
(***************************************************************************)
EXTENDS Integers, Sequences, FiniteSets, TLC

(***************************************************************************)
(* Coefficient arithmetic on digit and limb sequences.                     *)
(***************************************************************************)

\* One limb holds four decimal digits.
LimbBase == 10000

\* The one element of a singleton: {e(v) : v \in {x}} computes x once, then e.
The(S) == CHOOSE v \in S : TRUE

Max(a, b) == IF a >= b THEN a ELSE b
Min(a, b) == IF a <= b THEN a ELSE b

\* n zeros.
Zeros(n) == [i \in 1..n |-> 0] \o <<>>

\* The digits without their leading zeros; <<0>> for zero.
StripZeros(d) ==
    IF \A i \in 1..Len(d) : d[i] = 0 THEN <<0>>
    ELSE IF d[1] # 0 THEN d
    ELSE LET f == CHOOSE i \in 1..Len(d) : d[i] # 0 /\ \A j \in 1..(i - 1) : d[j] = 0
         IN  SubSeq(d, f, Len(d))

IsZeroDigits(d) == \A i \in 1..Len(d) : d[i] = 0

\* Digits (most significant first) to limbs (least significant first).
DigitsToLimbs(d) ==
    LET n  == Len(d)
        nl == (n + 3) \div 4
        dg(k) == IF k >= 1 THEN d[k] ELSE 0
    IN  [j \in 1..nl |->
            LET e == n - 4 * (j - 1)
            IN  dg(e - 3) * 1000 + dg(e - 2) * 100 + dg(e - 1) * 10 + dg(e)] \o <<>>

\* Limbs (least significant first) to digits, leading zeros stripped.
LimbsToDigits(L) ==
    LET nl == Len(L)
    IN  StripZeros([i \in 1..(4 * nl) |->
            LET j == nl - ((i - 1) \div 4)
                r == (i - 1) % 4
            IN  IF r = 0 THEN L[j] \div 1000
                ELSE IF r = 1 THEN (L[j] \div 100) % 10
                ELSE IF r = 2 THEN (L[j] \div 10) % 10
                ELSE L[j] % 10] \o <<>>)

\* Sum of a[i] * b[k + 1 - i] for i in lo..hi (column k of the product), by halves.
RECURSIVE ColSum(_, _, _, _, _)
ColSum(a, b, k, lo, hi) ==
    IF lo > hi THEN 0
    ELSE IF lo = hi THEN a[lo] * b[k + 1 - lo]
    ELSE LET mid == (lo + hi) \div 2
         IN  ColSum(a, b, k, lo, mid) + ColSum(a, b, k, mid + 1, hi)

\* Carry propagation over the columns lo..hi, by halves: <<limbs, carry out>>.
RECURSIVE MulCarry(_, _, _, _)
MulCarry(cols, lo, hi, carry) ==
    IF lo = hi
    THEN LET s == cols[lo] + carry
         IN  <<(<<s % LimbBase>>), s \div LimbBase>>
    ELSE LET mid   == (lo + hi) \div 2
             left  == MulCarry(cols, lo, mid, carry)
             right == MulCarry(cols, mid + 1, hi, left[2])
         IN  <<left[1] \o right[1], right[2]>>

\* Exact product of two limb sequences.
MulLimbs(a, b) ==
    LET n    == Len(a) + Len(b) - 1
        cols == [k \in 1..n |->
                    ColSum(a, b, k, Max(1, k + 1 - Len(b)), Min(Len(a), k))] \o <<>>
        r    == MulCarry(cols, 1, n, 0)
    IN  IF r[2] = 0 THEN r[1] ELSE Append(r[1], r[2])

\* Exact product of two coefficients given as digits.
MulDigits(x, y) == LimbsToDigits(MulLimbs(DigitsToLimbs(x), DigitsToLimbs(y)))

\* Comparison of two digit sequences of one length: -1, 0 or 1.
CmpSameLen(x, y) ==
    IF x = y THEN 0
    ELSE LET f == CHOOSE i \in 1..Len(x) : x[i] # y[i] /\ \A j \in 1..(i - 1) : x[j] = y[j]
         IN  IF x[f] < y[f] THEN -1 ELSE 1

\* Comparison of two digit sequences without leading zeros: -1, 0 or 1.
CmpDigits(x, y) ==
    IF Len(x) < Len(y) THEN -1
    ELSE IF Len(x) > Len(y) THEN 1
    ELSE CmpSameLen(x, y)

\* The digit sequence plus one.
IncDigits(d) ==
    IF \A i \in 1..Len(d) : d[i] = 9 THEN <<1>> \o Zeros(Len(d))
    ELSE LET f == CHOOSE i \in 1..Len(d) : d[i] # 9 /\ \A j \in (i + 1)..Len(d) : d[j] = 9
         IN  [i \in 1..Len(d) |-> IF i < f THEN d[i] ELSE IF i = f THEN d[i] + 1 ELSE 0] \o <<>>

(***************************************************************************)
(* Limb arithmetic for long division: operands padded to one length.       *)
(***************************************************************************)

PadLimbs(L, m) == L \o Zeros(m - Len(L))

\* Comparison of two limb sequences of one length, from the top limb down.
CmpLimbs(x, y) ==
    IF x = y THEN 0
    ELSE LET f == CHOOSE i \in 1..Len(x) : x[i] # y[i] /\ \A j \in (i + 1)..Len(x) : x[j] = y[j]
         IN  IF x[f] < y[f] THEN -1 ELSE 1

\* x - y for x >= y over the limbs lo..hi, by halves: <<limbs, borrow out>>.
RECURSIVE SubLimbs(_, _, _, _, _)
SubLimbs(x, y, lo, hi, borrow) ==
    IF lo = hi
    THEN LET t == x[lo] - y[lo] - borrow
         IN  IF t < 0 THEN <<(<<t + LimbBase>>), 1>> ELSE <<(<<t>>), 0>>
    ELSE LET mid   == (lo + hi) \div 2
             left  == SubLimbs(x, y, lo, mid, borrow)
             right == SubLimbs(x, y, mid + 1, hi, left[2])
         IN  <<left[1] \o right[1], right[2]>>

\* x * 10 + d over the limbs lo..hi, by halves: <<limbs, carry out>>.
RECURSIVE ShiftInLimbs(_, _, _, _)
ShiftInLimbs(x, lo, hi, carry) ==
    IF lo = hi
    THEN LET t == x[lo] * 10 + carry
         IN  <<(<<t % LimbBase>>), t \div LimbBase>>
    ELSE LET mid   == (lo + hi) \div 2
             left  == ShiftInLimbs(x, lo, mid, carry)
             right == ShiftInLimbs(x, mid + 1, hi, left[2])
         IN  <<left[1] \o right[1], right[2]>>

\* How many times den fits into r (0..9), and what is left: <<q, r - q * den>>.
RECURSIVE Fit(_, _, _)
Fit(r, den, q) ==
    IF CmpLimbs(r, den) < 0 THEN <<q, r>>
    ELSE Fit(SubLimbs(r, den, 1, Len(r), 0)[1], den, q + 1)

\* Schoolbook long division of the digits lo..hi of num by den, by halves, r the
\* remainder so far (one limb longer than den needs): <<quotient digits, remainder>>.
RECURSIVE LongDiv(_, _, _, _, _)
LongDiv(num, den, lo, hi, r) ==
    IF lo = hi
    THEN LET f == Fit(ShiftInLimbs(r, 1, Len(r), num[lo])[1], den, 0)
         IN  <<(<<f[1]>>), f[2]>>
    ELSE LET mid   == (lo + hi) \div 2
             left  == LongDiv(num, den, lo, mid, r)
             right == LongDiv(num, den, mid + 1, hi, left[2])
         IN  <<left[1] \o right[1], right[2]>>

\* divmod of two coefficients given as digits: <<quotient digits, remainder is zero>>.
DivModDigits(num, den) ==
    LET dl == DigitsToLimbs(den)
        m  == Len(dl) + 1
        qr == LongDiv(num, PadLimbs(dl, m), 1, Len(num), Zeros(m))
    IN  <<StripZeros(qr[1]), \A i \in 1..m : qr[2][i] = 0>>

(***************************************************************************)
(* decimal.Decimal values and the context operations the code uses.        *)
(***************************************************************************)

\* Decimal(sign, digits, exponent), as Decimal.as_tuple().
Decimal(s, d, e) == [sign |-> s, digits |-> d, exp |-> e]

IsZero(x) == IsZeroDigits(x.digits)

\* Context rounding (ROUND_HALF_EVEN) of a coefficient to prec significant digits.
Fix(s, digits, e, prec) ==
    LET d == StripZeros(digits)
        n == Len(d)
    IN  IF n <= prec THEN Decimal(s, d, e)
        ELSE LET keep == SubSeq(d, 1, prec)
                 first == d[prec + 1]
                 sticky == \E i \in (prec + 2)..n : d[i] # 0
                 up == \/ first > 5
                       \/ first = 5 /\ (sticky \/ keep[prec] % 2 = 1)
                 inc == IF up THEN IncDigits(keep) ELSE keep
             IN  IF Len(inc) > prec
                 THEN Decimal(s, SubSeq(inc, 1, prec), e + (n - prec) + 1)
                 ELSE Decimal(s, inc, e + (n - prec))

\* x * y in a context of precision prec (Decimal.__mul__: a zero operand gives
\* a zero with the summed exponent).
DecMul(x, y, prec) ==
    IF IsZero(x) \/ IsZero(y) THEN Decimal((x.sign + y.sign) % 2, <<0>>, x.exp + y.exp)
    ELSE Fix((x.sign + y.sign) % 2, MulDigits(x.digits, y.digits), x.exp + y.exp, prec)

\* Trailing zeros are dropped from an exact quotient up to the ideal exponent.
DropTrailingZeros(d, e, ideal) ==
    LET n == Len(d)
        K == {k \in 0..Min(n - 1, Max(0, ideal - e)) : \A j \in (n - k + 1)..n : d[j] = 0}
        k == CHOOSE k \in K : \A k2 \in K : k2 <= k
    IN  <<SubSeq(d, 1, n - k), e + k>>

\* x / y in a context of precision prec, y not zero (Decimal.__truediv__).
DecDiv(x, y, prec) ==
    LET s     == (x.sign + y.sign) % 2
        shift == Len(y.digits) - Len(x.digits) + prec + 1
        e     == x.exp - y.exp - shift
        num   == IF shift >= 0 THEN x.digits \o Zeros(shift) ELSE x.digits
        den   == IF shift >= 0 THEN y.digits ELSE y.digits \o Zeros(-shift)
        qr    == DivModDigits(num, den)
        q     == qr[1]
    IN  IF IsZero(x) THEN Decimal(s, <<0>>, x.exp - y.exp)
        ELSE IF ~qr[2]
        THEN Fix(s, IF q[Len(q)] % 5 = 0 THEN [q EXCEPT ![Len(q)] = q[Len(q)] + 1] ELSE q,
                 e, prec)
        ELSE LET t == DropTrailingZeros(q, e, x.exp - y.exp)
             IN  Fix(s, t[1], t[2], prec)

\* Numeric comparison of two decimals: -1, 0 or 1.
CmpAbs(x, y) ==
    LET dx == StripZeros(x.digits)
        dy == StripZeros(y.digits)
        ax == Len(dx) + x.exp
        ay == Len(dy) + y.exp
        n  == Max(Len(dx), Len(dy))
    IN  IF IsZeroDigits(dx) THEN (IF IsZeroDigits(dy) THEN 0 ELSE -1)
        ELSE IF IsZeroDigits(dy) THEN 1
        ELSE IF ax < ay THEN -1
        ELSE IF ax > ay THEN 1
        ELSE CmpSameLen(dx \o Zeros(n - Len(dx)), dy \o Zeros(n - Len(dy)))

DecCmp(x, y) ==
    LET zx == IsZero(x)
        zy == IsZero(y)
        sx == IF zx THEN 0 ELSE IF x.sign = 1 THEN -1 ELSE 1
        sy == IF zy THEN 0 ELSE IF y.sign = 1 THEN -1 ELSE 1
    IN  IF sx # sy THEN (IF sx < sy THEN -1 ELSE 1)
        ELSE IF sx = 0 THEN 0
        ELSE sx * CmpAbs(x, y)

DecLt(x, y) == DecCmp(x, y) < 0
DecLe(x, y) == DecCmp(x, y) <= 0
DecEq(x, y) == DecCmp(x, y) = 0

\* Number of decimal digits of a positive integer.
RECURSIVE NumDigits(_)
NumDigits(n) == IF n < 10 THEN 1 ELSE 1 + NumDigits(n \div 10)

RECURSIVE Pow2(_)
Pow2(k) == IF k = 0 THEN 1 ELSE 2 * Pow2(k - 1)

\* Index of the highest set bit of n >= 1 (bit 0 is the lowest).
RECURSIVE TopBit(_)
TopBit(n) == IF n = 1 THEN 0 ELSE 1 + TopBit(n \div 2)

\* Left-to-right square and multiply at the working precision wprec over the
\* bits hi down to lo of n, by halves; r is the power for the bits above hi.
\* The loop ends early once the result is zero.
RECURSIVE PowLoop(_, _, _, _, _, _)
PowLoop(base, n, hi, lo, r, wprec) ==
    IF hi < lo THEN r
    ELSE IF hi = lo
    THEN LET sq == DecMul(r, r, wprec)
         IN  IF (n \div Pow2(hi)) % 2 = 1 THEN DecMul(sq, base, wprec) ELSE sq
    ELSE LET mid  == (hi + lo + 1) \div 2
             high == PowLoop(base, n, hi, mid, r, wprec)
         IN  IF IsZero(high) THEN high
             ELSE PowLoop(base, n, mid - 1, lo, high, wprec)

\* base ** n for an integer n >= 0 in a context of precision prec: the decimal
\* module squares and multiplies with len(str(n)) + 2 guard digits and rounds
\* the result to the context once at the end.
DecPow(base, n, prec) ==
    IF n = 0 THEN Decimal(0, <<1>>, 0)
    ELSE The({Fix(r.sign, r.digits, r.exp, prec) :
                r \in {PowLoop(base, n, TopBit(n) - 1, 0, base, prec + NumDigits(n) + 2)}})

(***************************************************************************)
(* The class constants (the same in both modules).                         *)
(***************************************************************************)

\* getcontext().prec = 50
Prec == 50

\* BASE = Decimal("1.0001")
BASE == Decimal(0, <<1, 0, 0, 0, 1>>, -4)

MAX_TICK == 559680

\* MIN_PRICE = Decimal("0.000000000000000000000000495")
MIN_PRICE == Decimal(0, <<4, 9, 5>>, -27)

\* MAX_PRICE = Decimal("2020125331305056766452345.127500016657360222036663651")
MAX_PRICE ==
    Decimal(0, <<2,0,2,0,1,2,5,3,3,1,3,0,5,0,5,6,7,6,6,4,5,2,3,4,5,
                 1,2,7,5,0,0,0,1,6,6,5,7,3,6,0,2,2,2,0,3,6,6,6,3,6,5,1>>, -27)

\* Decimal("1")
One == Decimal(0, <<1>>, 0)

Abs(n) == IF n < 0 THEN -n ELSE n

(***************************************************************************)
(* tick_to_price: the result, or a raised exception.                       *)
(***************************************************************************)

Ok(v) == [ok |-> TRUE, val |-> v]
Raise(exc, msg) == [ok |-> FALSE, exc |-> exc, msg |-> msg]

\* tick_to_price with the range test off by one (>= for >).
tick_to_price_ge(tick) ==
    IF Abs(tick) >= MAX_TICK THEN Raise("ValueError", "tick out of range")
    ELSE The({IF tick < 0 THEN Ok(DecDiv(One, power, Prec)) ELSE Ok(power) :
                power \in {DecPow(BASE, Abs(tick), Prec)}})

\* tick_to_price with the negative branch left uninverted.
tick_to_price_no_inverse(tick) ==
    IF Abs(tick) > MAX_TICK THEN Raise("ValueError", "tick out of range")
    ELSE Ok(DecPow(BASE, Abs(tick), Prec))

tick_to_price(tick) ==
    IF Abs(tick) > MAX_TICK THEN Raise("ValueError", "tick out of range")
    ELSE The({IF tick < 0 THEN Ok(DecDiv(One, power, Prec)) ELSE Ok(power) :
                power \in {DecPow(BASE, Abs(tick), Prec)}})

(***************************************************************************)
(* price_to_tick.  Both modules return round(ln(x) / ln(BASE)) computed    *)
(* through a binary float: the calculator converts the 50-digit decimal    *)
(* quotient with float(), the converter takes math.log of float(x) and of  *)
(* float(BASE).  round() then yields the integer nearest to the float, so  *)
(* the result is the integer nearest to log_BASE(x) unless log_BASE(x) is  *)
(* within the float error of a half-integer, where either neighbour may    *)
(* come out.  With q = log_BASE(x) and t = floor(q),                       *)
(*     q < t + 1/2   iff   x^2 < BASE^(2t + 1),                            *)
(* which needs no logarithm; an absolute error d on q is a relative error  *)
(* 2 * ln(BASE) * d on x^2.                                                *)
(***************************************************************************)

\* Working precision of the comparison of x^2 with BASE^(2t + 1).
LogPrec == 60

\* Largest k for which BASE^(2^k) is needed: 2^20 > MAX_TICK + 1.
TopSquare == 19

\* <<BASE^(2^lo), ..., BASE^(2^hi)>> at LogPrec digits, prev = BASE^(2^(lo - 1)).
RECURSIVE Squares(_, _, _)
Squares(lo, hi, prev) ==
    IF lo = hi THEN <<DecMul(prev, prev, LogPrec)>>
    ELSE LET mid  == (lo + hi) \div 2
             left == Squares(lo, mid, prev)
         IN  left \o Squares(mid + 1, hi, left[Len(left)])

\* <<BASE^1, BASE^2, BASE^4, ..., BASE^(2^TopSquare)>>.
BaseSquares == <<BASE>> \o Squares(1, TopSquare, BASE)

\* <<t, BASE^t>> for the largest t with BASE^t <= x, for 1 <= x < BASE^(2^20):
\* the bits hi down to lo of t are settled by halves, st = <<t, BASE^t>> so far;
\* no lower bit can be set once BASE^t = x.
RECURSIVE FloorLog(_, _, _, _, _)
FloorLog(x, sq, hi, lo, st) ==
    IF hi = lo
    THEN LET cand == DecMul(st[2], sq[hi + 1], LogPrec)
         IN  IF DecLe(cand, x) THEN <<st[1] + Pow2(hi), cand>> ELSE st
    ELSE LET mid  == (hi + lo + 1) \div 2
             high == FloorLog(x, sq, hi, mid, st)
         IN  IF DecEq(high[2], x) THEN high
             ELSE FloorLog(x, sq, mid - 1, lo, high)

\* Relative error on x^2 that covers the float error of the quotient:
\* calculator  float(q), q <= 559681:          2 ln(BASE) * q * 2^-53 < 10^-13
\* converter   log(float(x)) / log(float(BASE)): 2 ln(BASE) * q * 1.2 * 10^-13 < 10^-10
HalfTol(m) ==
    IF m = "calculator" THEN Decimal(0, <<1>>, -13) ELSE Decimal(0, <<1>>, -10)

\* x + y for non-negative decimals of small size (used for 1 + tol only).
OnePlus(tol)  == Decimal(0, <<1>> \o Zeros(-tol.exp - 1) \o <<1>>, tol.exp)
OneMinus(tol) == Decimal(0, [i \in 1..(-tol.exp) |-> 9] \o <<>>, tol.exp)

\* RoundLog with math.ceil for round: the tick above, unless x = BASE^t.
RoundLogCeil(m, x) ==
    UNION {IF DecEq(fl[2], x) THEN {fl[1]} ELSE {fl[1] + 1}
              : fl \in {FloorLog(x, BaseSquares, TopSquare, 0, <<0, One>>)}}

\* The values round(<float of ln(x)/ln(BASE)>) can take, for x >= 1.
RoundLog(m, x) ==
    UNION {UNION {UNION {IF DecLt(xx, DecMul(half, OneMinus(HalfTol(m)), LogPrec))
                         THEN {fl[1]}
                         ELSE IF DecLt(DecMul(half, OnePlus(HalfTol(m)), LogPrec), xx)
                         THEN {fl[1] + 1}
                         ELSE {fl[1], fl[1] + 1}
                            : half \in {DecMul(sqr, BASE, LogPrec)}}
                     : sqr \in {DecMul(fl[2], fl[2], LogPrec)}, xx \in {DecMul(x, x, LogPrec)}}
              : fl \in {FloorLog(x, BaseSquares, TopSquare, 0, <<0, One>>)}}

Zero == Decimal(0, <<0>>, 0)

\* Decimal("NaN"): as_tuple() has no digits.
NaN == Decimal(0, <<>>, 0)
IsNaN(x) == Len(x.digits) = 0

\* price_to_tick with the negation of the price < 1 branch dropped.
price_to_tick_unsigned(m, price) ==
    IF IsNaN(price) THEN {Raise("InvalidOperation", "comparison involving NaN")}
    ELSE IF DecLe(price, Zero) THEN {Raise("ValueError", "Price must be positive")}
    ELSE IF DecLt(price, MIN_PRICE) \/ DecLt(MAX_PRICE, price)
    THEN {Raise("ValueError", "price out of range")}
    ELSE IF DecLt(price, One)
    THEN UNION {{Ok(t) : t \in RoundLog(m, inverse_price)}
                   : inverse_price \in {DecDiv(One, price, Prec)}}
    ELSE {Ok(t) : t \in RoundLog(m, price)}

\* price_to_tick with the range test exclusive of MIN_PRICE and MAX_PRICE.
price_to_tick_exclusive(m, price) ==
    IF IsNaN(price) THEN {Raise("InvalidOperation", "comparison involving NaN")}
    ELSE IF DecLe(price, Zero) THEN {Raise("ValueError", "Price must be positive")}
    ELSE IF DecLe(price, MIN_PRICE) \/ DecLe(MAX_PRICE, price)
    THEN {Raise("ValueError", "price out of range")}
    ELSE IF DecLt(price, One)
    THEN UNION {{Ok(-t) : t \in RoundLog(m, inverse_price)}
                   : inverse_price \in {DecDiv(One, price, Prec)}}
    ELSE {Ok(t) : t \in RoundLog(m, price)}

\* The outcomes of price_to_tick(price) in module m.
price_to_tick(m, price) ==
    IF IsNaN(price) THEN {Raise("InvalidOperation", "comparison involving NaN")}
    ELSE IF DecLe(price, Zero) THEN {Raise("ValueError", "Price must be positive")}
    ELSE IF DecLt(price, MIN_PRICE) \/ DecLt(MAX_PRICE, price)
    THEN {Raise("ValueError", "price out of range")}
    ELSE IF DecLt(price, One)
    THEN UNION {{Ok(-t) : t \in RoundLog(m, inverse_price)}
                   : inverse_price \in {DecDiv(One, price, Prec)}}
    ELSE {Ok(t) : t \in RoundLog(m, price)}

(***************************************************************************)
(* price_0to1_to_1to0 and validate_round_trip / validate_conversion.       *)
(***************************************************************************)

\* price_0to1_to_1to0 under the default context (28 digits) instead of prec = 50.
price_0to1_to_1to0_prec28(price_0to1) ==
    IF IsNaN(price_0to1) THEN Ok(NaN)
    ELSE IF IsZero(price_0to1) THEN Raise("DivisionByZero", "division by zero")
    ELSE Ok(DecDiv(One, price_0to1, 28))

\* Decimal("1") / price_0to1: no guard of its own; the division signals
\* DivisionByZero (a ZeroDivisionError, trapped by the default context) on a
\* zero and carries the sign of a negative price into the result.
price_0to1_to_1to0(price_0to1) ==
    IF IsNaN(price_0to1) THEN Ok(NaN)
    ELSE IF IsZero(price_0to1) THEN Raise("DivisionByZero", "division by zero")
    ELSE Ok(DecDiv(One, price_0to1, Prec))

\* Python's exception classes, as far as the handlers tell them apart.
IsValueError(exc) == exc = "ValueError"
IsException(exc) ==
    exc \in {"ValueError", "InvalidOperation", "DivisionByZero", "EOFError"}

\* Both validators with a handler for the wrong class ("except KeyError:").
ValidateCatchesKeyError(m, exc) == exc = "KeyError"

\* validate_round_trip ends in a bare "except:", validate_conversion in
\* "except ValueError:".
ValidateCatches(m, exc) ==
    IF m = "calculator" THEN TRUE ELSE IsValueError(exc)

\* A local that was never assigned.
Unset == Raise("unset", "")

\* The runs of validate_round_trip(tick): the locals price and tick_back (as the
\* outcome of the call that assigns them) and what the function returns or raises.
ValidateRuns(m, tick) ==
    UNION {IF ~p.ok
           THEN {[price |-> p, tick_back |-> Unset,
                  ret |-> IF ValidateCatches(m, p.exc) THEN Ok(FALSE) ELSE p]}
           ELSE {[price |-> p, tick_back |-> b,
                  ret |-> IF b.ok THEN Ok(Abs(tick - b.val) <= 1)
                          ELSE IF ValidateCatches(m, b.exc) THEN Ok(FALSE)
                          ELSE b] : b \in price_to_tick(m, p.val)}
              : p \in {tick_to_price(tick)}}

validate_round_trip(m, tick) == {r.ret : r \in ValidateRuns(m, tick)}

(***************************************************************************)
(* The arguments the operations are called with.                           *)
(***************************************************************************)

\* Ticks and coefficients are sampled at most this far from each anchor.
MaxOffset == 1

Offsets == (-MaxOffset)..MaxOffset

\* The ticks of show_examples and the two ends of the tick range.
TickAnchors == {0, 23027, -23027, 69078, -69078, MAX_TICK, -MAX_TICK}

TickSamples == {a + d : a \in TickAnchors, d \in Offsets}

\* The decimal digits of n >= 0.
RECURSIVE IntDigits(_)
IntDigits(n) == IF n < 10 THEN <<n>> ELSE Append(IntDigits(n \div 10), n % 10)

\* Decimal(n) of an integer, Decimal("<c>E<e>") of a small coefficient.
IntToDecimal(n) == Decimal(IF n < 0 THEN 1 ELSE 0, IntDigits(Abs(n)), 0)
SmallDecimal(c, e) == Decimal(IF c < 0 THEN 1 ELSE 0, IntDigits(Abs(c)), e)

\* The decimal whose last two digits are moved by d (they stay within 00..99).
Nudge(x, d) ==
    LET n == Len(x.digits)
        v == x.digits[n - 1] * 10 + x.digits[n] + d
    IN  Decimal(x.sign, SubSeq(x.digits, 1, n - 2) \o <<v \div 10, v % 10>>, x.exp)

\* sqrt(BASE) to 17 digits: the price half a tick above 1.
HalfTick == Decimal(0, <<1,0,0,0,0,4,9,9,9,8,7,5,0,0,6,2,5>>, -16)

\* <<coefficient, exponent>>: 0, MIN_PRICE, 1, 7 and 10.
SmallAnchors == {<<0, 0>>, <<4950, -28>>, <<100, -2>>, <<700, -2>>, <<1000, -2>>}

\* The prices of show_examples at ticks 23027 and -23027 (50 digits each).
ExamplePrices == {tick_to_price(23027).val, tick_to_price(-23027).val}

PriceSamples ==
    {SmallDecimal(a[1] + d, a[2]) : a \in SmallAnchors, d \in Offsets}
        \cup {Nudge(MAX_PRICE, d) : d \in Offsets}
        \cup {Nudge(HalfTick, d) : d \in Offsets}
        \cup {Nudge(x, d) : x \in ExamplePrices, d \in Offsets}

(***************************************************************************)
(* A caller of the four core operations (the shell, a test harness).       *)
(***************************************************************************)

VARIABLES
    module,     \* "calculator" (tick_price_calculator.py) or "converter"
    pc,         \* where the program is
    op,         \* the operation or command last entered
    tick,       \* its tick argument
    price,      \* its price argument
    ret,        \* what it returned or raised
    locals,     \* the locals of the function that ran
    line,       \* main: the line read by input()
    out         \* main: what the iteration printed

vars == <<module, pc, op, tick, price, ret, locals, line, out>>

Modules == {"calculator", "converter"}

NoLocals == [price |-> Unset, tick_back |-> Unset]
NoLine == [kind |-> "none", cmd |-> "", arity |-> 0, val |-> "", n |-> 0, d |-> Zero]

Init ==
    /\ module \in Modules
    /\ pc = "idle"
    /\ op = "none"
    /\ tick = 0
    /\ price = Zero
    /\ ret = Unset
    /\ locals = NoLocals
    /\ line = NoLine
    /\ out = "none"

CallTickToPrice(t) ==
    /\ pc = "idle"
    /\ pc' = "returned"
    /\ op' = "tick_to_price"
    /\ tick' = t
    /\ ret' = tick_to_price(t)
    /\ UNCHANGED <<module, price, locals, line, out>>

CallPriceToTick(x) ==
    /\ pc = "idle"
    /\ pc' = "returned"
    /\ op' = "price_to_tick"
    /\ price' = x
    /\ ret' \in price_to_tick(module, x)
    /\ UNCHANGED <<module, tick, locals, line, out>>

CallPrice0to1To1to0(x) ==
    /\ pc = "idle"
    /\ pc' = "returned"
    /\ op' = "price_0to1_to_1to0"
    /\ price' = x
    /\ ret' = price_0to1_to_1to0(x)
    /\ UNCHANGED <<module, tick, locals, line, out>>

CallValidateRoundTrip(t) ==
    /\ pc = "idle"
    /\ pc' = "returned"
    /\ op' = "validate_round_trip"
    /\ tick' = t
    /\ \E r \in ValidateRuns(module, t) :
        /\ ret' = r.ret
        /\ locals' = [price |-> r.price, tick_back |-> r.tick_back]
    /\ UNCHANGED <<module, price, line, out>>

\* The caller is done with the result and may call again.
Return ==
    /\ pc = "returned"
    /\ pc' = "idle"
    /\ op' = "none"
    /\ tick' = 0
    /\ price' = Zero
    /\ ret' = Unset
    /\ locals' = NoLocals
    /\ UNCHANGED <<module, line, out>>

Next ==
    \/ \E t \in TickSamples : CallTickToPrice(t)
    \/ \E x \in PriceSamples : CallPriceToTick(x)
    \/ \E x \in PriceSamples : CallPrice0to1To1to0(x)
    \/ \E t \in TickSamples : CallValidateRoundTrip(t)
    \/ Return

Spec == Init /\ [][Next]_vars

(***************************************************************************)
(* Properties of the four core operations, checked under Spec.             *)
(***************************************************************************)

\* The operation o has just returned or raised.
Returned(o) == pc = "returned" /\ op = o

\* C1: for every tick T with |T| <= MAX_TICK, the ends of the range included,
\* price_to_tick(tick_to_price(T)) succeeds and returns T - 1, T or T + 1, in
\* the calculator and in the converter.
C1_RoundTripWithinOneTick ==
    (Returned("validate_round_trip") /\ Abs(tick) <= MAX_TICK)
        => /\ locals.price.ok
           /\ locals.tick_back.ok
           /\ Abs(locals.tick_back.val - tick) <= 1

C1_Witness ==
    /\ Returned("validate_round_trip")
    /\ module = "converter"
    /\ tick = -MAX_TICK
    /\ locals.tick_back = Ok(-MAX_TICK)

\* C2: tick_to_price raises ValueError exactly when |tick| > MAX_TICK:
\* 559681 and -559681 fail, 559680 and -559680 return a price.
C2_TickRangeError ==
    Returned("tick_to_price")
        => /\ ret.ok <=> Abs(tick) <= MAX_TICK
           /\ ~ret.ok => IsValueError(ret.exc)

C2_Witness ==
    /\ Returned("tick_to_price")
    /\ tick = -(MAX_TICK + 1)
    /\ ~ret.ok

\* C3: price_to_tick raises ValueError for a price <= 0 ("must be positive",
\* never "out of range"), for a price below MIN_PRICE and for a price above
\* MAX_PRICE, and returns an integer for MIN_PRICE <= price <= MAX_PRICE.
C3_PriceRangeError ==
    Returned("price_to_tick")
        => IF DecLe(price, Zero)
           THEN ~ret.ok /\ IsValueError(ret.exc) /\ ret.msg = "Price must be positive"
           ELSE IF DecLt(price, MIN_PRICE) \/ DecLt(MAX_PRICE, price)
           THEN ~ret.ok /\ IsValueError(ret.exc) /\ ret.msg = "price out of range"
           ELSE ret.ok /\ ret.val \in Int

C3_Witness ==
    /\ Returned("price_to_tick")
    /\ DecEq(price, MIN_PRICE)
    /\ ret = Ok(-MAX_TICK)

\* C4: price_0to1_to_1to0 returns 1 / price for a price > 0 and raises
\* ValueError for a price <= 0; it returns no value <= 0 and raises nothing else.
C4_InverseRejectsNonPositive ==
    Returned("price_0to1_to_1to0")
        => IF DecLt(Zero, price)
           THEN ret.ok /\ DecLt(Zero, ret.val)
           ELSE ~ret.ok /\ IsValueError(ret.exc)

\* C5: validate_round_trip / validate_conversion raises for no tick; it returns
\* True iff tick_to_price and price_to_tick both succeed and the tick found is
\* at most 1 away, and False for every tick with |tick| > MAX_TICK.
C5_ValidateNeverRaises ==
    Returned("validate_round_trip")
        => /\ ret.ok
           /\ ret.val <=> /\ locals.price.ok
                          /\ locals.tick_back.ok
                          /\ Abs(tick - locals.tick_back.val) <= 1
           /\ Abs(tick) > MAX_TICK => ret.val = FALSE

C5_Witness ==
    /\ Returned("validate_round_trip")
    /\ module = "converter"
    /\ tick = MAX_TICK + 1
    /\ ~locals.price.ok
    /\ ret = Ok(FALSE)

\* x is a price the context holds without rounding.
Representable(x) == DecLt(Zero, x) /\ Len(x.digits) <= Prec

\* |z - x| < x * tol, for x > 0 (the products are exact at 2 * Prec + 10 digits).
Within(z, x, tol) ==
    /\ DecLt(DecMul(x, OneMinus(tol), 2 * Prec + 10), z)
    /\ DecLt(z, DecMul(x, OnePlus(tol), 2 * Prec + 10))

\* C7, as first stated: price_0to1_to_1to0(price_0to1_to_1to0(x)) == x for every
\* x > 0 representable at 50 significant digits.
C7_ExactInvolution ==
    (Returned("price_0to1_to_1to0") /\ Representable(price))
        => /\ ret.ok
           /\ LET back == price_0to1_to_1to0(ret.val)
              IN  back.ok /\ DecEq(back.val, price)

\* C7, amended: for every x > 0 representable at 50 significant digits,
\* price_0to1_to_1to0(price_0to1_to_1to0(x)) succeeds and differs from x by
\* less than x * 10^-49 (two roundings to 50 digits); it need not equal x.
C7_InvolutionWithinPrecision ==
    (Returned("price_0to1_to_1to0") /\ Representable(price))
        => /\ ret.ok
           /\ LET back == price_0to1_to_1to0(ret.val)
              IN  back.ok /\ Within(back.val, price, Decimal(0, <<1>>, -(Prec - 1)))

C7_Witness ==
    /\ Returned("price_0to1_to_1to0")
    /\ DecEq(price, SmallDecimal(7, 0))
    /\ ret.ok
    /\ ~DecEq(price_0to1_to_1to0(ret.val).val, price)

\* C8: for every tick with |tick| <= MAX_TICK, tick_to_price(tick) > 0 and
\* tick_to_price(T1) < tick_to_price(tick) for every valid T1 < tick, whichever
\* branch (1 / BASE^|T|, BASE^T) computes each; tick_to_price(0) is 1.
C8_PositiveAndIncreasing ==
    (Returned("tick_to_price") /\ ret.ok)
        => /\ DecLt(Zero, ret.val)
           /\ tick = 0 => ret.val = One
           /\ \A t1 \in TickSamples :
                (t1 < tick /\ Abs(t1) <= MAX_TICK)
                    => DecLt(tick_to_price(t1).val, ret.val)

C8_Witness ==
    /\ Returned("tick_to_price")
    /\ tick = 1
    /\ ret.ok
    /\ DecLt(tick_to_price(-1).val, tick_to_price(0).val)
    /\ DecLt(tick_to_price(0).val, ret.val)

\* C9: every tick_to_price(T), |T| <= MAX_TICK, lies in [MIN_PRICE, MAX_PRICE],
\* tick_to_price(MAX_TICK) equals MAX_PRICE and tick_to_price(-MAX_TICK) equals
\* MIN_PRICE.
C9_BoundsAreBoundaryPrices ==
    (Returned("tick_to_price") /\ ret.ok)
        => /\ DecLe(MIN_PRICE, ret.val) /\ DecLe(ret.val, MAX_PRICE)
           /\ tick = MAX_TICK => DecEq(ret.val, MAX_PRICE)
           /\ tick = -MAX_TICK => DecEq(ret.val, MIN_PRICE)

\* C10: a tick returned by price_to_tick is within [-MAX_TICK, MAX_TICK], so
\* tick_to_price accepts it; it is >= 0 for a price >= 1 and <= 0 for a price < 1.
C10_TickWithinRange ==
    (Returned("price_to_tick") /\ ret.ok)
        => /\ Abs(ret.val) <= MAX_TICK
           /\ tick_to_price(ret.val).ok
           /\ DecLe(One, price) => ret.val >= 0
           /\ DecLt(price, One) => ret.val <= 0

C10_Witness ==
    /\ Returned("price_to_tick")
    /\ DecEq(price, MAX_PRICE)
    /\ ret = Ok(MAX_TICK)

(***************************************************************************)
(* The interactive main loop of each module.                               *)
(***************************************************************************)

\* A line of input after strip().lower() and split(): the first token, the
\* number of tokens and, of the second token, what int() and Decimal() make of
\* it: an integer literal (n), another decimal literal (d), "nan", or junk.
\* kind "signal": input() raised cmd instead of returning.
TextLine(c, a, v, n, d) == [kind |-> "text", cmd |-> c, arity |-> a, val |-> v, n |-> n, d |-> d]
Signal(e) == [kind |-> "signal", cmd |-> e, arity |-> 0, val |-> "", n |-> 0, d |-> Zero]

Words == {"q", "quit", "exit", "h", "help", "t", "p", "x"}

Values ==
    {TextLine("", 2, "int", n, Zero) : n \in TickSamples}
        \cup {TextLine("", 2, "dec", 0, d) : d \in PriceSamples}
        \cup {TextLine("", 2, "nan", 0, Zero), TextLine("", 2, "junk", 0, Zero)}

Lines ==
    {Signal("EOFError"), Signal("KeyboardInterrupt"), TextLine("", 0, "", 0, Zero)}
        \cup {TextLine(w, 1, "", 0, Zero) : w \in Words}
        \cup {[v EXCEPT !.cmd = c] : c \in {"t", "p", "x"}, v \in Values}
        \cup {TextLine("t", 3, "int", 1, Zero)}

\* int(value)
ParseInt(l) ==
    IF l.val = "int" THEN Ok(l.n) ELSE Raise("ValueError", "invalid literal for int()")

\* Decimal(value): text that is no number signals ConversionSyntax, an
\* InvalidOperation (an ArithmeticError, not a ValueError).
ParseDecimal(l) ==
    IF l.val = "int" THEN Ok(IntToDecimal(l.n))
    ELSE IF l.val = "dec" THEN Ok(l.d)
    ELSE IF l.val = "nan" THEN Ok(NaN)
    ELSE Raise("InvalidOperation", "ConversionSyntax")

\* What one iteration ends in: the text printed and the exception that leaves
\* the handler ("" when none does).
Printed(text) == [out |-> text, exc |-> ""]
Escapes(e) == [out |-> "none", exc |-> e]

\* abs(price - verified_price) / price * 100 < 0.001, as
\* price * (1 - 10^-5) < verified_price < price * (1 + 10^-5).
HighAccuracy(x, verified) ==
    LET tol == Decimal(0, <<1>>, -5)
    IN  /\ DecLt(DecMul(x, OneMinus(tol), LogPrec), verified)
        /\ DecLt(verified, DecMul(x, OnePlus(tol), LogPrec))

\* The tick branch up to the inverse price: int(value), tick_to_price of the
\* tick, price_0to1_to_1to0 of the price; the first failure, or the last result.
TickSteps(l) ==
    UNION {UNION {{IF p.ok THEN price_0to1_to_1to0(p.val) ELSE p}
                     : p \in {IF t.ok THEN tick_to_price(t.val) ELSE t}}
              : t \in {ParseInt(l)}}

\* handle_tick_command(tick_str) of the calculator.
handle_tick_command(l) ==
    UNION {IF ~q.ok
           THEN {IF IsValueError(q.exc) THEN Printed("error") ELSE Printed("unexpected error")}
           ELSE {IF v.ok /\ v.val THEN Printed("tick, round-trip accurate")
                 ELSE IF v.ok THEN Printed("tick, round-trip has small error")
                 ELSE IF IsValueError(v.exc) THEN Printed("error")
                 ELSE Printed("unexpected error")
                    : v \in validate_round_trip("calculator", ParseInt(l).val)}
              : q \in TickSteps(l)}

\* The price branch after Decimal(value): price_to_tick, tick_to_price of the
\* tick, price_0to1_to_1to0 of the price; the first failure, or the three values.
PriceSteps(m, x) ==
    UNION {IF ~b.ok THEN {b}
           ELSE {IF ~v.ok THEN v
                 ELSE IF ~i.ok THEN i
                 ELSE Ok([tick |-> b.val, verified |-> v.val, inverse |-> i.val])
                    : v \in {tick_to_price(b.val)}, i \in {price_0to1_to_1to0(x)}}
              : b \in price_to_tick(m, x)}

\* handle_price_command(price_str) of the calculator.
handle_price_command(l) ==
    LET x == ParseDecimal(l)
    IN  IF ~x.ok
        THEN {IF IsValueError(x.exc) THEN Printed("error") ELSE Printed("unexpected error")}
        ELSE {IF r.ok
              THEN (IF HighAccuracy(x.val, r.val.verified)
                    THEN Printed("price, high accuracy") ELSE Printed("price, accuracy"))
              ELSE IF IsValueError(r.exc) THEN Printed("error")
              ELSE Printed("unexpected error") : r \in PriceSteps("calculator", x.val)}

\* The 't' branch of the converter's main: only ValueError is caught.
ConverterTick(l) ==
    {IF q.ok THEN Printed("tick")
     ELSE IF ~IsValueError(q.exc) THEN Escapes(q.exc)
     ELSE IF ~ParseInt(l).ok THEN Printed("invalid tick")
     ELSE Printed("error") : q \in TickSteps(l)}

\* The 'p' branch of the converter's main: only ValueError is caught.
ConverterPrice(l) ==
    LET x == ParseDecimal(l)
    IN  IF ~x.ok
        THEN {IF IsValueError(x.exc) THEN Printed("invalid price") ELSE Escapes(x.exc)}
        ELSE {IF r.ok THEN Printed("price")
              ELSE IF IsValueError(r.exc) THEN Printed("error")
              ELSE Escapes(r.exc) : r \in PriceSteps("converter", x.val)}

QuitWords == {"q", "quit", "exit"}
HelpWords == {"h", "help"}

\* What the body of main's "while True" does with one line.
\* calculator: an exception leaving a handler is caught by main's
\* "except Exception"; converter: main catches KeyboardInterrupt and EOFError only.
MainBody(m, l) ==
    IF l.kind = "signal" THEN {Escapes(l.cmd)}
    ELSE IF l.arity = 1 /\ l.cmd \in QuitWords THEN {Printed("goodbye")}
    ELSE IF l.arity = 0 THEN {Printed("none")}
    ELSE IF m = "calculator" /\ l.arity = 1 /\ l.cmd \in HelpWords THEN {Printed("help")}
    ELSE IF l.arity # 2 THEN {Printed("invalid format")}
    ELSE IF l.cmd = "t"
    THEN (IF m = "calculator" THEN handle_tick_command(l) ELSE ConverterTick(l))
    ELSE IF l.cmd = "p"
    THEN (IF m = "calculator" THEN handle_price_command(l) ELSE ConverterPrice(l))
    ELSE {Printed("unknown command")}

\* One iteration of main's loop on the line l: where it leaves the program.
\* "handled": back to the top of the loop; "exited": break; "crashed": an
\* exception left main.
MainIteration(l) ==
    /\ pc = "input"
    /\ line' = l
    /\ \E r \in MainBody(module, l) :
        IF r.exc = ""
        THEN /\ pc' = IF l.arity = 1 /\ l.cmd \in QuitWords THEN "exited" ELSE "handled"
             /\ out' = r.out
             /\ ret' = Unset
        ELSE IF r.exc \in {"KeyboardInterrupt", "EOFError"}
        THEN /\ pc' = "exited"
             /\ out' = "goodbye"
             /\ ret' = Unset
        ELSE IF module = "calculator" /\ IsException(r.exc)
        THEN /\ pc' = "handled"
             /\ out' = "unexpected error"
             /\ ret' = Unset
        ELSE /\ pc' = "crashed"
             /\ out' = "traceback"
             /\ ret' = Raise(r.exc, "")
    /\ UNCHANGED <<module, op, tick, price, locals>>

\* Back at the top of the loop, before input().
Prompt ==
    /\ pc = "handled"
    /\ pc' = "input"
    /\ line' = NoLine
    /\ out' = "none"
    /\ UNCHANGED <<module, op, tick, price, ret, locals>>

ShellInit ==
    /\ module \in Modules
    /\ pc = "input"
    /\ op = "main"
    /\ tick = 0
    /\ price = Zero
    /\ ret = Unset
    /\ locals = NoLocals
    /\ line = NoLine
    /\ out = "none"

ShellNext ==
    \/ \E l \in Lines : MainIteration(l)
    \/ Prompt

ShellSpec == ShellInit /\ [][ShellNext]_vars

\* C6: an error raised while one command is handled is caught and reported and
\* the loop reads the next line; the session ends only on q / quit / exit or on
\* an end-of-input or interrupt signal, in both modules.
C6_SessionSurvivesErrors ==
    pc \in {"handled", "exited", "crashed"}
        => IF line.kind = "signal" \/ (line.arity = 1 /\ line.cmd \in QuitWords)
           THEN pc = "exited"
           ELSE pc = "handled"

====
